---- MODULE Spec2Model ----
(***************************************************************************)
(* Model of the differential-privacy query service: the Laplace release    *)
(* engine apply_differential_privacy (app.py), the /query and / handlers   *)
(* (app.py) and the day collector fetch_attacks_for_day                    *)
(* (fetch_day_attacks.py).                                                 *)
(*                                                                         *)
(* Number representation.  Python floats are modelled as exact decimals:   *)
(*   epsilon        in tenths       (30   stands for 3.0)                  *)
(*   sampled noise  in thousandths  (1496 stands for 1.496)                *)
(*   round(x, 2)    in hundredths   (150  stands for 1.50)                 *)
(* The epsilon and noise values enumerated below are such that every tie   *)
(* met by round() is an exactly representable binary fraction (x.5, x.125, *)
(* x.375, ...), so round-half-even on the decimal is what Python computes. *)
(***************************************************************************)
EXTENDS Integers, Sequences, FiniteSets, TLC

VARIABLES DEBUG_MODE, request, fetched, call, result, response, trace

vars == <<DEBUG_MODE, request, fetched, call, result, response, trace>>

(***************************************************************************)
(* Bounds                                                                  *)
(***************************************************************************)
MaxLen == 6        \* longest collection (engine argument, collector answer)
MaxCount == 1      \* largest per-identifier count
MaxNoise == 2      \* sampled noise lies in [-MaxNoise, MaxNoise)

(***************************************************************************)
(* Python builtins used by the engine                                      *)
(***************************************************************************)
Max(a, b) == IF a >= b THEN a ELSE b

Min(a, b) == IF a <= b THEN a ELSE b

\* round(num/den) for den > 0: nearest integer, ties to the even one.
RoundHalfEven(num, den) ==
  LET q == num \div den
      r == num % den
  IN  IF 2 * r < den THEN q
      ELSE IF 2 * r > den THEN q + 1
      ELSE IF q % 2 = 0 THEN q ELSE q + 1

RECURSIVE SumCounts(_)
\* sum(count for _, count in attack_data)
SumCounts(s) == IF s = <<>> THEN 0 ELSE s[1][2] + SumCounts(Tail(s))

\* variant: the first record's count taken for the largest
FirstCount(s) == s[1][2]

RECURSIVE MaxOfCounts(_)
\* max(count for _, count in attack_data), attack_data non-empty
MaxOfCounts(s) ==
  IF Len(s) = 1 THEN s[1][2] ELSE Max(s[1][2], MaxOfCounts(Tail(s)))

\* variant: a record enters before the records of equal count
RECURSIVE InsertDescTiesFirst(_, _)
InsertDescTiesFirst(x, sorted) ==
  IF sorted = <<>> THEN <<x>>
  ELSE IF sorted[1][2] > x[2]
       THEN <<sorted[1]>> \o InsertDescTiesFirst(x, Tail(sorted))
  ELSE <<x>> \o sorted

\* Position at which x enters an already sorted list: after every element
\* whose count is >= its own (equal counts keep their order of arrival).
RECURSIVE InsertDesc(_, _)
InsertDesc(x, sorted) ==
  IF sorted = <<>> THEN <<x>>
  ELSE IF sorted[1][2] >= x[2] THEN <<sorted[1]>> \o InsertDesc(x, Tail(sorted))
  ELSE <<x>> \o sorted

RECURSIVE SortedDesc(_, _)
\* sorted(attack_data, key=lambda x: x[1], reverse=True): a stable sort.
SortedDesc(s, acc) ==
  IF s = <<>> THEN acc ELSE SortedDesc(Tail(s), InsertDesc(s[1], acc))

TopN == 5

\* sorted(...)[:5]
top_attackers(attack_data) ==
  LET s == SortedDesc(attack_data, <<>>)
  IN  SubSeq(s, 1, Min(TopN, Len(s)))

(***************************************************************************)
(* The random source.  A draw is what np.random.laplace does when it is    *)
(* called: it raises, or it returns a sample; for a positive scale the     *)
(* sample can be any real, for scale 0 it is loc + 0 * x = 0.              *)
(***************************************************************************)
NoiseFractions == {0, 125, 496, 500, 504}

Noises == {w * 1000 + f : w \in (0 - MaxNoise)..(MaxNoise - 1), f \in NoiseFractions}

Draws == [ok : {TRUE}, noise : Noises] \cup {[ok |-> FALSE, noise |-> 0]}

NoDraw == [ok |-> TRUE, noise |-> 0]

(***************************************************************************)
(* The release engine: apply_differential_privacy(attack_data, epsilon).   *)
(* attack_data is a sequence of <<ip, count>> pairs, epsilon is in tenths. *)
(* The outcome is what the call does: it returns a dict (value) or raises  *)
(* (exc); sampled records whether np.random.laplace was called, and raw    *)
(* is the unrounded sample that was added (thousandths).                   *)
(***************************************************************************)
Returned(v, sampled, raw) ==
  [kind |-> "return", value |-> v, exc |-> "", sampled |-> sampled, raw |-> raw]

Raised(e, sampled) ==
  [kind |-> "raise", value |-> <<>>, exc |-> e, sampled |-> sampled, raw |-> 0]

\* The dict returned for an empty collection: it has no "top_attackers".
EmptyResult ==
  [true_count |-> 0, noisy_count |-> 0, sensitivity |-> 0,
   noise |-> 0, noise_scale |-> 0, num_ips |-> 0]

\* round(true_count + noise), with noise in thousandths.
RoundedSum(true_count, noise) == RoundHalfEven(true_count * 1000 + noise, 1000)

\* variant: the rounded sum without the clamp at 0
RoundedSumUnclamped(true_count, noise) ==
  RoundHalfEven(true_count * 1000 + noise, 1000)

\* max(0, round(true_count + noise))
NoisyCount(true_count, noise) == Max(0, RoundedSum(true_count, noise))

\* round(noise, 2), in hundredths.
ReportedNoise(noise) == RoundHalfEven(noise, 10)

\* round(scale, 2) for scale = sensitivity / epsilon, in hundredths.
ReportedScale(sensitivity, epsilon) == RoundHalfEven(1000 * sensitivity, epsilon)

\* np.random.laplace(loc=0, scale=scale) on a call that does not raise.
Sample(sensitivity, draw) == IF sensitivity = 0 THEN 0 ELSE draw.noise

apply_differential_privacy(attack_data, epsilon, draw) ==
  IF attack_data = <<>> THEN Returned(EmptyResult, FALSE, 0)
  ELSE
    LET true_count == SumCounts(attack_data)
        sensitivity == MaxOfCounts(attack_data)
    IN  IF epsilon = 0 THEN Raised("ZeroDivisionError", FALSE)
        ELSE IF epsilon < 0 THEN Raised("ValueError: scale < 0", TRUE)
        ELSE IF ~draw.ok THEN Raised("sampler failure", TRUE)
        ELSE
          LET noise == Sample(sensitivity, draw)
          IN  Returned(
                [true_count |-> true_count,
                 noisy_count |-> NoisyCount(true_count, noise),
                 sensitivity |-> sensitivity,
                 noise |-> ReportedNoise(noise),
                 noise_scale |-> ReportedScale(sensitivity, epsilon),
                 num_ips |-> Len(attack_data),
                 top_attackers |-> top_attackers(attack_data)],
                TRUE, noise)

(***************************************************************************)
(* Inputs of the engine when it is called directly.  The engine never      *)
(* looks at an identifier, so the i-th record carries identifier i.        *)
(***************************************************************************)
Records(counts) == [i \in DOMAIN counts |-> <<i, counts[i]>>]

Collections ==
  UNION {{Records(c) : c \in [1..n -> 0..MaxCount]} : n \in 0..MaxLen}

\* epsilon arguments, in tenths: -1.0, 0, 0.5, 3.0, 8.0
EngineEpsilons == {0 - 10, 0, 5, 30, 80}

(***************************************************************************)
(* The collector: fetch_attacks_for_day(date_str).                         *)
(* A date string is modelled by its dash-separated numeric fields, so      *)
(* "2025-01-15" is <<2025, 1, 15>>.  es is what client.search does: it     *)
(* raises, or answers with the buckets of the terms aggregation, which the *)
(* query asks to be ordered by descending count.                           *)
(***************************************************************************)
IsLeap(y) == (y % 4 = 0 /\ y % 100 # 0) \/ y % 400 = 0

DaysInMonth(y, m) ==
  IF m = 2 THEN (IF IsLeap(y) THEN 29 ELSE 28)
  ELSE IF m \in {4, 6, 9, 11} THEN 30 ELSE 31

\* datetime.strptime(date_str, "%Y-%m-%d") does not raise ValueError
ValidDate(fields) ==
  /\ Len(fields) = 3
  /\ fields[1] \in 1..9999
  /\ fields[2] \in 1..12
  /\ fields[3] \in 1..DaysInMonth(fields[1], fields[2])

NonIncreasing(c) == \A i \in DOMAIN c : \A j \in DOMAIN c : i < j => c[i] >= c[j]

Buckets(counts) == [i \in DOMAIN counts |-> [key |-> i, doc_count |-> counts[i]]]

EsResponses ==
  {[ok |-> FALSE, buckets |-> <<>>]} \cup
  UNION {{[ok |-> TRUE, buckets |-> Buckets(c)] :
            c \in {d \in [1..n -> 0..MaxCount] : NonIncreasing(d)}} :
         n \in 0..MaxLen}

NoEs == [ok |-> TRUE, buckets |-> <<>>]

Fetched(data) == [kind |-> "return", value |-> data, exc |-> ""]

FetchRaised(e) == [kind |-> "raise", value |-> <<>>, exc |-> e]

NoFetch == [kind |-> "none", value |-> <<>>, exc |-> ""]

fetch_attacks_for_day(date_fields, es) ==
  IF ~ValidDate(date_fields) THEN FetchRaised("ValueError: Invalid date format")
  ELSE IF ~es.ok THEN FetchRaised("Elasticsearch query failed")
  ELSE Fetched([i \in DOMAIN es.buckets |->
                  <<es.buckets[i].key, es.buckets[i].doc_count>>])

(***************************************************************************)
(* The /query handler.                                                     *)
(* A request is [json, date, epsilon]: json says whether the body parses   *)
(* as a JSON object; date is the "date" member (given = FALSE when it is   *)
(* absent, so that data.get returns None); epsilon is the "epsilon" member *)
(* (a number in tenths, absent, or a text float() cannot parse).           *)
(***************************************************************************)
DefaultEpsilon == 10    \* data.get('epsilon', 1.0)

MaxEpsilon == 100       \* epsilon > 10

DateInputs ==
  {[given |-> TRUE, fields |-> <<2025, 1, 15>>],
   [given |-> TRUE, fields |-> <<2025, 2, 30>>],
   [given |-> TRUE, fields |-> <<15, 1>>],
   [given |-> FALSE, fields |-> <<>>]}

\* epsilon members: finite numbers (tenths), absent, or unparseable text
EpsilonInputs ==
  [kind : {"number"}, v : {0 - 10, 0, 5, 30, MaxEpsilon, MaxEpsilon + 1}]
    \cup {[kind |-> "missing", v |-> 0], [kind |-> "text", v |-> 0]}

QueryRequests ==
  [route : {"/query"}, json : {TRUE}, date : DateInputs, epsilon : EpsilonInputs]
    \cup {[route |-> "/query", json |-> FALSE,
           date |-> [given |-> FALSE, fields |-> <<>>],
           epsilon |-> [kind |-> "missing", v |-> 0]]}

NoRequest ==
  [route |-> "", json |-> FALSE, date |-> [given |-> FALSE, fields |-> <<>>],
   epsilon |-> [kind |-> "missing", v |-> 0]]

IndexRequest == [NoRequest EXCEPT !.route = "/"]

NoCall == [made |-> FALSE, attack_data |-> <<>>, epsilon |-> 0]

Called(attack_data, epsilon) ==
  [made |-> TRUE, attack_data |-> attack_data, epsilon |-> epsilon]

NoResult == [kind |-> "none", value |-> <<>>, exc |-> "", sampled |-> FALSE, raw |-> 0]

NoResponse == [status |-> 0, body |-> <<>>]

\* float(data.get('epsilon', 1.0)) when it does not raise
ParsedEpsilon(e) == IF e.kind = "missing" THEN DefaultEpsilon ELSE e.v

\* variant: epsilon = 0 let through
EpsilonRejectedBelowZero(epsilon) == epsilon < 0 \/ epsilon > MaxEpsilon

\* if epsilon <= 0 or epsilon > 10
EpsilonRejected(epsilon) == epsilon <= 0 \/ epsilon > MaxEpsilon

\* jsonify({"error": ...})
ErrorBody(message) == [error |-> message]

\* the keys response.update reads from the engine's dict in debug mode
DebugKeys ==
  {"sensitivity", "noise", "noise_scale", "num_ips", "true_count", "top_attackers"}

\* [{"ip": ip, "count": count} for ip, count in result["top_attackers"]]
AttackerDicts(top) == [i \in DOMAIN top |-> [ip |-> top[i][1], count |-> top[i][2]]]

\* variant: the update without top_attackers
DebugFieldsWithoutTop(value) ==
  [sensitivity |-> value.sensitivity,
   noise |-> value.noise,
   noise_scale |-> value.noise_scale,
   num_ips |-> value.num_ips,
   true_count |-> value.true_count]

\* the dict handed to response.update
DebugFields(value) ==
  [sensitivity |-> value.sensitivity,
   noise |-> value.noise,
   noise_scale |-> value.noise_scale,
   num_ips |-> value.num_ips,
   true_count |-> value.true_count,
   top_attackers |-> AttackerDicts(value.top_attackers)]

\* variant: the debug update applied whatever the mode
IncludeDebugAlways(debug_mode) == TRUE

\* if DEBUG_MODE:
IncludeDebug(debug_mode) == debug_mode

\* the response dict before the debug update
BaseFields(date, epsilon, value, debug_mode) ==
  [success |-> TRUE,
   date |-> date,
   epsilon |-> epsilon,
   query_time |-> "%Y-%m-%d %H:%M:%S",
   noisy_count |-> value.noisy_count,
   debug_mode |-> debug_mode]

Handled(f, c, r, status, body, calls) ==
  [fetched |-> f, call |-> c, result |-> r,
   response |-> [status |-> status, body |-> body], trace |-> calls]

\* the handler's own return of jsonify({"error": ...}), 400
Rejected(message, calls) ==
  Handled(NoFetch, NoCall, NoResult, 400, ErrorBody(message), calls)

\* variant: the except clause answering with a result field beside the error
CaughtWithPartial(f, c, r, message, calls) ==
  Handled(f, c, r, 500, [error |-> message, noisy_count |-> 0], calls)

\* except Exception as e: return jsonify({"error": str(e)}), 500
Caught(f, c, r, message, calls) == Handled(f, c, r, 500, ErrorBody(message), calls)

query(req, es, draw, debug_mode) ==
  IF ~req.json
  THEN Caught(NoFetch, NoCall, NoResult, "AttributeError", <<"get_json">>)
  ELSE IF req.epsilon.kind = "text"
  THEN Caught(NoFetch, NoCall, NoResult, "ValueError: could not convert string to float",
              <<"get_json", "float">>)
  ELSE IF ~req.date.given
  THEN Caught(NoFetch, NoCall, NoResult, "TypeError: strptime() argument 1 must be str",
              <<"get_json", "float", "strptime">>)
  ELSE IF ~ValidDate(req.date.fields)
  THEN Rejected("Invalid date format. Use YYYY-MM-DD", <<"get_json", "float", "strptime">>)
  ELSE
    LET epsilon == ParsedEpsilon(req.epsilon)
        preamble == <<"get_json", "float", "strptime">>
    IN
    IF EpsilonRejected(epsilon)
    THEN Rejected("Epsilon must be between 0.1 and 10", preamble)
    ELSE
      LET f == fetch_attacks_for_day(req.date.fields, es)
          fetching == Append(preamble, "fetch_attacks_for_day")
      IN
      IF f.kind = "raise" THEN Caught(f, NoCall, NoResult, f.exc, fetching)
      ELSE
        LET c == Called(f.value, epsilon)
            r == apply_differential_privacy(f.value, epsilon, draw)
            applying ==
              Append(fetching, "apply_differential_privacy")
                \o (IF r.sampled THEN <<"np.random.laplace">> ELSE <<>>)
        IN
        IF r.kind = "raise" THEN Caught(f, c, r, r.exc, applying)
        ELSE IF ~IncludeDebug(debug_mode)
        THEN Handled(f, c, r, 200,
                     BaseFields(req.date.fields, epsilon, r.value, debug_mode), applying)
        ELSE IF DebugKeys \subseteq DOMAIN r.value
        THEN Handled(f, c, r, 200,
                     BaseFields(req.date.fields, epsilon, r.value, debug_mode)
                       @@ DebugFields(r.value),
                     applying)
        ELSE Caught(f, c, r, "'top_attackers'", applying)

(***************************************************************************)
(* The service.  DEBUG_MODE is fixed when the process starts.  A request   *)
(* is dispatched to its handler (Receive: nothing of the request before it *)
(* is kept, the handlers share no state but DEBUG_MODE), and the handler   *)
(* runs from start to end in one step (Index, Query).  The environment     *)
(* (the search backend, the random source) is consulted only as far as the *)
(* handler gets.                                                           *)
(***************************************************************************)
Init ==
  /\ DEBUG_MODE \in BOOLEAN
  /\ request = NoRequest
  /\ fetched = NoFetch
  /\ call = NoCall
  /\ result = NoResult
  /\ response = NoResponse
  /\ trace = <<>>

\* no request is waiting for its handler
Idle == request = NoRequest \/ response # NoResponse

\* the request has been dispatched and its handler has not run yet
Pending(route) == request.route = route /\ response = NoResponse

\* Flask dispatches the next request to its view function
Receive ==
  /\ Idle
  /\ request' \in QueryRequests \cup {IndexRequest}
  /\ fetched' = NoFetch
  /\ call' = NoCall
  /\ result' = NoResult
  /\ response' = NoResponse
  /\ trace' = <<>>
  /\ UNCHANGED DEBUG_MODE

\* @app.route('/')
Index ==
  /\ Pending("/")
  /\ response' = [status |-> 200,
                  body |-> [template |-> "index.html", debug_mode |-> DEBUG_MODE]]
  /\ trace' = <<"render_template">>
  /\ UNCHANGED <<DEBUG_MODE, request, fetched, call, result>>

\* @app.route('/query', methods=['POST'])
Query ==
  /\ Pending("/query")
  /\ \E es \in (IF query(request, NoEs, NoDraw, DEBUG_MODE).fetched.kind = "none"
                THEN {NoEs} ELSE EsResponses) :
       \E draw \in (IF query(request, es, NoDraw, DEBUG_MODE).result.sampled
                    THEN Draws ELSE {NoDraw}) :
         LET h == query(request, es, draw, DEBUG_MODE)
         IN  /\ fetched' = h.fetched
             /\ call' = h.call
             /\ result' = h.result
             /\ response' = h.response
             /\ trace' = h.trace
  /\ UNCHANGED <<DEBUG_MODE, request>>

Next == Receive \/ Index \/ Query

Spec == Init /\ [][Next]_vars

(***************************************************************************)
(* The engine called on its own: the arguments are any collection and any  *)
(* epsilon, and the call is made once.                                     *)
(***************************************************************************)
EngineInit ==
  /\ DEBUG_MODE \in BOOLEAN
  /\ request = NoRequest
  /\ fetched = NoFetch
  /\ call \in [made : {FALSE}, attack_data : Collections, epsilon : EngineEpsilons]
  /\ result = NoResult
  /\ response = NoResponse
  /\ trace = <<>>

Apply ==
  /\ ~call.made
  /\ \E draw \in (IF apply_differential_privacy(call.attack_data, call.epsilon, NoDraw).sampled
                  THEN Draws ELSE {NoDraw}) :
       LET r == apply_differential_privacy(call.attack_data, call.epsilon, draw)
       IN  /\ result' = r
           /\ trace' = <<"apply_differential_privacy">>
                         \o (IF r.sampled THEN <<"np.random.laplace">> ELSE <<>>)
  /\ call' = [call EXCEPT !.made = TRUE]
  /\ UNCHANGED <<DEBUG_MODE, request, fetched, response>>

EngineNext == Apply

SpecEngine == EngineInit /\ [][EngineNext]_vars

(***************************************************************************)
(* Properties                                                              *)
(***************************************************************************)
\* the /query handler has run on the current request
QueryHandled == request.route = "/query" /\ response # NoResponse

\* the engine call has returned its dict
EngineReturned == call.made /\ result.kind = "return"

ProductionKeys == {"success", "date", "epsilon", "query_time", "noisy_count", "debug_mode"}

DiagnosticKeys ==
  {"true_count", "sensitivity", "noise", "noise_scale", "num_ips", "top_attackers"}

Abs(x) == IF x >= 0 THEN x ELSE 0 - x

\* C1: in production mode no /query response carries a diagnostic key, and
\* the key set of a successful response is exactly the six production keys.
C1_ProductionKeySet ==
  (~DEBUG_MODE /\ QueryHandled) =>
    /\ DOMAIN response.body \cap DiagnosticKeys = {}
    /\ response.status = 200 => DOMAIN response.body = ProductionKeys

C1_Witness ==
  /\ ~DEBUG_MODE
  /\ QueryHandled
  /\ response.status = 200
  /\ EngineReturned
  /\ result.value.true_count > 0
  /\ result.sampled

\* C2: an empty collection and a valid epsilon give, in either mode, a
\* success response with noisy_count = 0 and no call to the random source.
C2_EmptyIsSuccess ==
  (QueryHandled /\ fetched.kind = "return" /\ Len(fetched.value) = 0) =>
    /\ response.status = 200
    /\ "success" \in DOMAIN response.body
    /\ response.body.noisy_count = 0
    /\ ~result.sampled

\* C3: a request whose epsilon is <= 0 or > 10 gets an error response, and
\* neither the engine nor the random source is called for it (with the
\* epsilon as sent or with any other).
C3_EpsilonRejectedEarly ==
  (/\ QueryHandled
   /\ request.json
   /\ request.epsilon.kind = "number"
   /\ (request.epsilon.v <= 0 \/ request.epsilon.v > 100)) =>
    /\ response.status >= 400
    /\ DOMAIN response.body = {"error"}
    /\ ~call.made
    /\ result = NoResult
    /\ \A i \in DOMAIN trace :
         trace[i] \notin {"fetch_attacks_for_day", "apply_differential_privacy",
                          "np.random.laplace"}

C3_Witness ==
  /\ QueryHandled
  /\ request.epsilon.kind = "number"
  /\ request.epsilon.v = 101
  /\ ValidDate(request.date.fields)
  /\ response.status = 400
  /\ response.body.error = "Epsilon must be between 0.1 and 10"

\* C4: the engine called with epsilon <= 0 rejects the call with a parameter
\* error: it returns no dict and does not divide by zero.
C4_EngineRejectsEpsilon ==
  (call.made /\ call.epsilon <= 0) =>
    /\ result.kind = "raise"
    /\ result.exc # "ZeroDivisionError"

\* C5: a non-empty collection whose counts are all 0 gives noise = 0 and
\* noisy_count = true_count without a call to the random source.
C5_ZeroSensitivityShortCircuit ==
  (/\ call.made
   /\ call.epsilon > 0
   /\ Len(call.attack_data) > 0
   /\ \A i \in DOMAIN call.attack_data : call.attack_data[i][2] = 0) =>
    /\ result.kind = "return"
    /\ result.value.noise = 0
    /\ result.value.noisy_count = result.value.true_count
    /\ ~result.sampled

\* C6 as claimed: noisy_count = max(0, round(true_count + noise)) with noise
\* the "noise" entry of the same dict (hundredths), and noisy_count >= 0.
C6_FromReportedNoise ==
  EngineReturned =>
    /\ result.value.noisy_count \in Nat
    /\ result.value.noisy_count =
         Max(0, RoundHalfEven(result.value.true_count * 100 + result.value.noise, 100))

\* C6 as amended: noisy_count is a non-negative integer, the nearest integer
\* (ties to even) to true_count + n clamped at 0, where n is the sample that
\* was drawn; the "noise" entry is n rounded to two decimals.
C6_FromSampledNoise ==
  EngineReturned =>
    LET sum == result.value.true_count * 1000 + result.raw
        noisy == result.value.noisy_count
    IN  /\ noisy \in Nat
        /\ \/ noisy = 0 /\ sum <= 500
           \/ noisy > 0 /\ Abs(1000 * noisy - sum) < 500
           \/ noisy > 0 /\ Abs(1000 * noisy - sum) = 500 /\ noisy % 2 = 0
        /\ Abs(10 * result.value.noise - result.raw) <= 5

C6_Witness ==
  /\ EngineReturned
  /\ result.sampled
  /\ result.value.noisy_count > 0
  /\ result.value.noisy_count #
       Max(0, RoundHalfEven(result.value.true_count * 100 + result.value.noise, 100))

\* C7 as claimed: for a non-empty collection and epsilon in (0, 10],
\* sensitivity is the largest count and noise_scale is exactly
\* sensitivity / epsilon.
C7_ExactScale ==
  (EngineReturned /\ Len(call.attack_data) > 0
     /\ call.epsilon > 0 /\ call.epsilon <= 100) =>
    /\ \A i \in DOMAIN call.attack_data :
         call.attack_data[i][2] <= result.value.sensitivity
    /\ \E i \in DOMAIN call.attack_data :
         call.attack_data[i][2] = result.value.sensitivity
    /\ result.value.noise_scale * call.epsilon = 1000 * result.value.sensitivity

\* C7 as amended: sensitivity is the largest count and noise_scale is
\* sensitivity / epsilon rounded to two decimals (within 0.005 of it).
C7_RoundedScale ==
  (EngineReturned /\ Len(call.attack_data) > 0
     /\ call.epsilon > 0 /\ call.epsilon <= 100) =>
    /\ \A i \in DOMAIN call.attack_data :
         call.attack_data[i][2] <= result.value.sensitivity
    /\ \E i \in DOMAIN call.attack_data :
         call.attack_data[i][2] = result.value.sensitivity
    /\ 2 * Abs(result.value.noise_scale * call.epsilon - 1000 * result.value.sensitivity)
         <= call.epsilon

C7_Witness ==
  /\ EngineReturned
  /\ call.epsilon = 30
  /\ Len(call.attack_data) > 1
  /\ call.attack_data[1][2] < result.value.sensitivity
  /\ result.value.noise_scale * call.epsilon # 1000 * result.value.sensitivity

\* C8: top_attackers has min(5, num_ips) entries, each a record of the
\* collection, in descending order of count with equal counts in collection
\* order, and every record left out comes after every entry in that order.
C8_TopAttackers ==
  (EngineReturned /\ Len(call.attack_data) > 0) =>
    LET data == call.attack_data
        top == result.value.top_attackers
        pos(k) == top[k][1]
        Before(p, q) == data[p][2] > data[q][2] \/ (data[p][2] = data[q][2] /\ p < q)
        kept == {pos(k) : k \in DOMAIN top}
    IN  /\ result.value.num_ips = Len(data)
        /\ Len(top) = (IF Len(data) < 5 THEN Len(data) ELSE 5)
        /\ \A k \in DOMAIN top : pos(k) \in DOMAIN data /\ data[pos(k)] = top[k]
        /\ \A k \in DOMAIN top : \A l \in DOMAIN top : k < l => Before(pos(k), pos(l))
        /\ \A j \in DOMAIN data \ kept : \A p \in kept : Before(p, j)

C8_Witness ==
  /\ EngineReturned
  /\ Len(call.attack_data) = 6
  /\ Len(result.value.top_attackers) = 5
  /\ call.attack_data[1][2] = 0
  /\ call.attack_data[2][2] = 1
  /\ call.attack_data[3][2] = 0
  /\ call.attack_data[6][2] = 1
  /\ result.value.top_attackers[1][1] = 2
  /\ result.value.top_attackers[2][1] = 6

\* C9: a /query that fails at any stage (request parsing, date, epsilon,
\* collector, engine or sampler) answers with the single key "error".
C9_ErrorOnly ==
  (/\ QueryHandled
   /\ \/ ~request.json
      \/ request.epsilon.kind = "text"
      \/ ~request.date.given
      \/ ~ValidDate(request.date.fields)
      \/ request.epsilon.kind = "number"
           /\ (request.epsilon.v <= 0 \/ request.epsilon.v > 100)
      \/ fetched.kind = "raise"
      \/ result.kind = "raise") =>
    /\ DOMAIN response.body = {"error"}
    /\ response.status >= 400

C9_Witness ==
  /\ QueryHandled
  /\ result.kind = "raise"
  /\ result.exc = "sampler failure"
  /\ SumCounts(call.attack_data) > 0
  /\ DOMAIN response.body = {"error"}

\* C10: in debug mode a successful response has the six production keys and
\* the six diagnostic keys, and every top_attackers entry is an {ip, count}
\* pair of the collection.
C10_DebugKeySet ==
  (DEBUG_MODE /\ QueryHandled /\ response.status = 200) =>
    /\ DOMAIN response.body = ProductionKeys \cup DiagnosticKeys
    /\ response.body.debug_mode = TRUE
    /\ Len(response.body.top_attackers) =
         (IF Len(fetched.value) < 5 THEN Len(fetched.value) ELSE 5)
    /\ \A i \in DOMAIN response.body.top_attackers :
         LET entry == response.body.top_attackers[i]
         IN  /\ DOMAIN entry = {"ip", "count"}
             /\ \E p \in DOMAIN fetched.value :
                  fetched.value[p] = <<entry.ip, entry.count>>

C10_Witness ==
  /\ DEBUG_MODE
  /\ QueryHandled
  /\ response.status = 200
  /\ Len(fetched.value) = 6
  /\ Len(response.body.top_attackers) = 5
  /\ response.body.true_count > 0

====
